---- MODULE Spec2Model ----
(***************************************************************************)
(* Model of run_distil.py: the entry point main() and its helper           *)
(* get_model().  main() is a straight-line script; the model follows its   *)
(* program counter statement by statement and records every collaborator   *)
(* it invokes in the history variable `trace'.                             *)
(*                                                                         *)
(* The file system is reduced to the one path main() touches,              *)
(* args.output_dir: whether it exists and, if so, which files it holds.    *)
(* The path is a directory whenever it exists.  Collaborators              *)
(* (parse_args, wandb, transformers, coref_dataset, train, Evaluator) are  *)
(* taken to return normally; only the raise statements of run_distil.py    *)
(* itself, and os.mkdir on an existing path, end a run early.              *)
(***************************************************************************)
EXTENDS Naturals, Sequences, FiniteSets

VARIABLES
    args,        \* the parsed argument namespace (cli.parse_args())
    cuda,        \* torch.cuda.is_available()
    prefix,      \* base_model_prefix of the checkpoint behind each get_model call
    pc,          \* position of main()
    dirExists,   \* os.path.exists(args.output_dir)
    dirContents, \* files below args.output_dir
    student,     \* main's local `student'
    teacher,     \* main's local `teacher'
    results,     \* main's return value
    error,       \* the exception that ended the run, with the line that raised it
    trace,       \* history: collaborators invoked so far, in order
    loaded,      \* history: get_model calls whose from_pretrained has run
    fs0,         \* history: the output path when the run started
    fsAtMkdir    \* history: the output path right after this run's os.mkdir

vars == <<args, cuda, prefix, pc, dirExists, dirContents, student, teacher,
          results, error, trace, loaded, fs0, fsAtMkdir>>

\* Number of distinct files the output directory can hold.
MaxFiles == 2

Files == 1..MaxFiles

\* Python's None.
None == "None"

\* consts.SUPPORTED_MODELS
SUPPORTED_MODELS == {"roberta", "longformer"}

\* base_model_prefix values a checkpoint can have; "gpt2" is unsupported.
Prefixes == SUPPORTED_MODELS \cup {"gpt2"}

NoError == [type |-> None, line |-> 0]

Raise(type, line) == [type |-> type, line |-> line]

ArgsSpace ==
    [experiment_name      : {None, "exp"},
     output_dir           : {None, "out"},
     overwrite_output_dir : BOOLEAN,
     do_train             : BOOLEAN,
     output_file          : {None, "preds.jsonl"},
     device               : {"cuda:0"}]

Init ==
    /\ args \in ArgsSpace
    /\ cuda \in BOOLEAN
    /\ prefix \in [{"student", "teacher"} -> Prefixes]
    /\ pc = "parse_args"
    /\ dirExists \in BOOLEAN
    /\ dirContents \in SUBSET Files
    /\ (~dirExists => dirContents = {})
    /\ (args.output_dir = None => ~dirExists)
    /\ student = None
    /\ teacher = None
    /\ results = None
    /\ error = NoError
    /\ trace = <<>>
    /\ loaded = {}
    /\ fs0 = [exists |-> dirExists, contents |-> dirContents]
    /\ fsAtMkdir = [done |-> FALSE, contents |-> {}]

Step(op) == trace' = Append(trace, op)

\* main, line 49: args = parse_args()
ParseArgs ==
    /\ pc = "parse_args"
    /\ Step("parse_args")
    /\ pc' = "wandb"
    /\ UNCHANGED <<args, cuda, prefix, dirExists, dirContents, student, teacher,
                   results, error, loaded, fs0, fsAtMkdir>>

\* Variant of ShouldInitWandb: the tracker is initialised unconditionally
ShouldInitWandb_Always(a) == TRUE

\* main, line 51: the condition of the wandb.init call
ShouldInitWandb(a) == a.experiment_name # None

\* main, lines 51-52
WandbInit ==
    /\ pc = "wandb"
    /\ trace' = IF ShouldInitWandb(args) THEN Append(trace, "wandb.init") ELSE trace
    /\ pc' = "output_dir"
    /\ UNCHANGED <<args, cuda, prefix, dirExists, dirContents, student, teacher,
                   results, error, loaded, fs0, fsAtMkdir>>

\* Variants of OutputDirGuard, each with one slip of the kind the checks invite.

\* the overwrite flag is ignored: an existing directory is always deleted
OutputDirGuard_AlwaysOverwrite(a, exists) ==
    IF a.output_dir # None
    THEN IF exists THEN "rmtree" ELSE "mkdir"
    ELSE IF a.do_train
         THEN "raise64"
         ELSE IF a.output_file = None THEN "raise67" ELSE "device"

\* with the overwrite flag the directory is not deleted before os.mkdir
OutputDirGuard_SkipRmtree(a, exists) ==
    IF a.output_dir # None
    THEN IF exists
         THEN IF a.overwrite_output_dir THEN "mkdir" ELSE "raise60"
         ELSE "mkdir"
    ELSE IF a.do_train
         THEN "raise64"
         ELSE IF a.output_file = None THEN "raise67" ELSE "device"

\* an output file is accepted in place of the directory for training as well
OutputDirGuard_FileSuffices(a, exists) ==
    IF a.output_dir # None
    THEN IF exists
         THEN IF a.overwrite_output_dir THEN "rmtree" ELSE "raise60"
         ELSE "mkdir"
    ELSE IF a.output_file = None
         THEN IF a.do_train THEN "raise64" ELSE "raise67"
         ELSE "device"

\* the output-file check of lines 66-67 is missing
OutputDirGuard_NoFileCheck(a, exists) ==
    IF a.output_dir # None
    THEN IF exists
         THEN IF a.overwrite_output_dir THEN "rmtree" ELSE "raise60"
         ELSE "mkdir"
    ELSE IF a.do_train THEN "raise64" ELSE "device"

\* the output-file test of line 66 is inverted
OutputDirGuard_InvertedFileTest(a, exists) ==
    IF a.output_dir # None
    THEN IF exists
         THEN IF a.overwrite_output_dir THEN "rmtree" ELSE "raise60"
         ELSE "mkdir"
    ELSE IF a.do_train
         THEN "raise64"
         ELSE IF a.output_file # None THEN "raise67" ELSE "device"

\* with the overwrite flag an existing directory is reused as it is
OutputDirGuard_ReuseExisting(a, exists) ==
    IF a.output_dir # None
    THEN IF exists
         THEN IF a.overwrite_output_dir THEN "device" ELSE "raise60"
         ELSE "mkdir"
    ELSE IF a.do_train
         THEN "raise64"
         ELSE IF a.output_file = None THEN "raise67" ELSE "device"

\* the overwrite flag is tested before the existence of the path
OutputDirGuard_RmtreeUnchecked(a, exists) ==
    IF a.output_dir # None
    THEN IF a.overwrite_output_dir
         THEN "rmtree"
         ELSE IF exists THEN "raise60" ELSE "mkdir"
    ELSE IF a.do_train
         THEN "raise64"
         ELSE IF a.output_file = None THEN "raise67" ELSE "device"

\* main, lines 54-67: the branch the output-path checks take.
\* "rmtree": line 57; "mkdir": line 61; "device": fall through to line 70;
\* a number: the line of the raise statement reached.
OutputDirGuard(a, exists) ==
    IF a.output_dir # None
    THEN IF exists
         THEN IF a.overwrite_output_dir THEN "rmtree" ELSE "raise60"
         ELSE "mkdir"
    ELSE IF a.do_train
         THEN "raise64"
         ELSE IF a.output_file = None THEN "raise67" ELSE "device"

GuardLine(branch) ==
    CASE branch = "raise60" -> 60
      [] branch = "raise64" -> 64
      [] branch = "raise67" -> 67

\* main, lines 54-56, 59-60, 62-67: the tests and the three raise statements
CheckOutputDir ==
    /\ pc = "output_dir"
    /\ LET branch == OutputDirGuard(args, dirExists) IN
       IF branch \in {"raise60", "raise64", "raise67"}
       THEN /\ pc' = "raised"
            /\ error' = Raise("ValueError", GuardLine(branch))
       ELSE /\ pc' = branch
            /\ error' = error
    /\ UNCHANGED <<args, cuda, prefix, dirExists, dirContents, student, teacher,
                   results, trace, loaded, fs0, fsAtMkdir>>

\* main, lines 57-58: shutil.rmtree(args.output_dir); FileNotFoundError on a
\* missing path
Rmtree ==
    /\ pc = "rmtree"
    /\ Step("shutil.rmtree")
    /\ IF dirExists
       THEN /\ pc' = "mkdir"
            /\ dirExists' = FALSE
            /\ dirContents' = {}
            /\ error' = error
       ELSE /\ pc' = "raised"
            /\ error' = Raise("FileNotFoundError", 57)
            /\ UNCHANGED <<dirExists, dirContents>>
    /\ UNCHANGED <<args, cuda, prefix, student, teacher, results, loaded, fs0,
                   fsAtMkdir>>

\* main, line 61: os.mkdir(args.output_dir); FileExistsError on an existing path
Mkdir ==
    /\ pc = "mkdir"
    /\ Step("os.mkdir")
    /\ IF dirExists
       THEN /\ pc' = "raised"
            /\ error' = Raise("FileExistsError", 61)
            /\ UNCHANGED <<dirExists, dirContents, fsAtMkdir>>
       ELSE /\ pc' = "device"
            /\ dirExists' = TRUE
            /\ dirContents' = {}
            /\ fsAtMkdir' = [done |-> TRUE, contents |-> dirContents']
            /\ error' = error
    /\ UNCHANGED <<args, cuda, prefix, student, teacher, results, loaded, fs0>>

\* main, line 70: args.device if torch.cuda.is_available() else "cpu"
SelectDevice(a, available) == IF available THEN a.device ELSE "cpu"

\* main, lines 70-72
SetupDevice ==
    /\ pc = "device"
    /\ Step("torch.device")
    /\ args' = [args EXCEPT !.device = SelectDevice(args, cuda)]
    /\ pc' = "set_seed"
    /\ UNCHANGED <<cuda, prefix, dirExists, dirContents, student, teacher, results,
                   error, loaded, fs0, fsAtMkdir>>

\* main, line 73
SetSeed ==
    /\ pc = "set_seed"
    /\ Step("set_seed")
    /\ pc' = "tokenizer"
    /\ UNCHANGED <<args, cuda, prefix, dirExists, dirContents, student, teacher,
                   results, error, loaded, fs0, fsAtMkdir>>

\* main, lines 75-76
LoadTokenizer ==
    /\ pc = "tokenizer"
    /\ Step("AutoTokenizer.from_pretrained")
    /\ pc' = "student"
    /\ UNCHANGED <<args, cuda, prefix, dirExists, dirContents, student, teacher,
                   results, error, loaded, fs0, fsAtMkdir>>

\* Variant of Unsupported: the membership test of line 35 never fires
Unsupported_Never(base_model_prefix) == FALSE

\* get_model, line 35: the condition of the raise
Unsupported(base_model_prefix) == base_model_prefix \notin SUPPORTED_MODELS

\* get_model, lines 27-45, called for `who': from_pretrained (line 30) runs,
\* then the check of line 35 raises or the model is returned
get_model(who) ==
    /\ Step(IF who = "student" THEN "get_model.student" ELSE "get_model.teacher")
    /\ loaded' = loaded \cup {who}
    /\ error' = IF Unsupported(prefix[who])
                THEN Raise("NotImplementedError", 36)
                ELSE error

\* main, line 78
GetStudent ==
    /\ pc = "student"
    /\ get_model("student")
    /\ IF error' # NoError
       THEN pc' = "raised" /\ student' = student
       ELSE pc' = "teacher" /\ student' = prefix["student"]
    /\ UNCHANGED <<args, cuda, prefix, dirExists, dirContents, teacher, results,
                   fs0, fsAtMkdir>>

\* main, line 80
GetTeacher ==
    /\ pc = "teacher"
    /\ get_model("teacher")
    /\ IF error' # NoError
       THEN pc' = "raised" /\ teacher' = teacher
       ELSE pc' = "dataset" /\ teacher' = prefix["teacher"]
    /\ UNCHANGED <<args, cuda, prefix, dirExists, dirContents, student, results,
                   fs0, fsAtMkdir>>

\* main, lines 83-87
CreateDataset ==
    /\ pc = "dataset"
    /\ Step("coref_dataset.create")
    /\ pc' = "eval_sampler"
    /\ UNCHANGED <<args, cuda, prefix, dirExists, dirContents, student, teacher,
                   results, error, loaded, fs0, fsAtMkdir>>

\* Variant of AfterEvaluator: the training block is not guarded by do_train
AfterEvaluator_AlwaysTrain(a) == "train_samplers"

\* main, line 99: where main goes after the evaluator is built
AfterEvaluator(a) == IF a.do_train THEN "train_samplers" ELSE "evaluate"

\* main, lines 89-96 and the test of line 99
BuildEvalSampler ==
    /\ pc = "eval_sampler"
    /\ Step("DynamicBatchSampler.eval")
    /\ pc' = AfterEvaluator(args)
    /\ UNCHANGED <<args, cuda, prefix, dirExists, dirContents, student, teacher,
                   results, error, loaded, fs0, fsAtMkdir>>

\* main, lines 100-119
BuildTrainSamplers ==
    /\ pc = "train_samplers"
    /\ trace' = trace \o <<"DynamicBatchSampler.student_train",
                           "DynamicBatchSampler.teacher_train">>
    /\ pc' = "train"
    /\ UNCHANGED <<args, cuda, prefix, dirExists, dirContents, student, teacher,
                   results, error, loaded, fs0, fsAtMkdir>>

\* main, lines 121-122: train(...) may write files below the output directory
Train ==
    /\ pc = "train"
    /\ Step("train")
    /\ \E written \in SUBSET Files :
          dirContents' = IF dirExists THEN dirContents \cup written ELSE dirContents
    /\ pc' = "evaluate"
    /\ UNCHANGED <<args, cuda, prefix, dirExists, student, teacher, results, error,
                   loaded, fs0, fsAtMkdir>>

\* main, lines 125-130
Evaluate ==
    /\ pc = "evaluate"
    /\ Step("evaluator.evaluate")
    /\ results' = "results"
    /\ pc' = "done"
    /\ UNCHANGED <<args, cuda, prefix, dirExists, dirContents, student, teacher,
                   error, loaded, fs0, fsAtMkdir>>

Next ==
    \/ ParseArgs
    \/ WandbInit
    \/ CheckOutputDir
    \/ Rmtree
    \/ Mkdir
    \/ SetupDevice
    \/ SetSeed
    \/ LoadTokenizer
    \/ GetStudent
    \/ GetTeacher
    \/ CreateDataset
    \/ BuildEvalSampler
    \/ BuildTrainSamplers
    \/ Train
    \/ Evaluate

Spec == Init /\ [][Next]_vars

(***************************************************************************)
(* Vocabulary of the properties                                            *)
(***************************************************************************)

Occurs(op) == \E i \in 1..Len(trace) : trace[i] = op

Count(op) == Cardinality({i \in 1..Len(trace) : trace[i] = op})

Pos(op) == CHOOSE i \in 1..Len(trace) : trace[i] = op

Terminated == pc \in {"done", "raised"}

\* positions of main up to and including the output-path checks
AtOrBeforeGuard == {"parse_args", "wandb", "output_dir"}

\* every collaborator main invokes after line 67
LaterSteps ==
    {"torch.device", "set_seed", "AutoTokenizer.from_pretrained",
     "get_model.student", "get_model.teacher", "coref_dataset.create",
     "DynamicBatchSampler.eval", "DynamicBatchSampler.student_train",
     "DynamicBatchSampler.teacher_train", "train", "evaluator.evaluate"}

NoLaterStep == \A op \in LaterSteps : ~Occurs(op)

FsUnchanged == dirExists = fs0.exists /\ dirContents = fs0.contents

ExistsNoOverwrite ==
    args.output_dir # None /\ fs0.exists /\ ~args.overwrite_output_dir

ExistsOverwrite ==
    args.output_dir # None /\ fs0.exists /\ args.overwrite_output_dir

TrainNoDir == args.output_dir = None /\ args.do_train

NoDirNoTrainNoFile ==
    args.output_dir = None /\ ~args.do_train /\ args.output_file = None

UnsupportedLoaded == \E who \in loaded : prefix[who] \notin SUPPORTED_MODELS

AllSupported == \A who \in {"student", "teacher"} : prefix[who] \in SUPPORTED_MODELS

(***************************************************************************)
(* C1: when an output directory is supplied, the path exists and the       *)
(* overwrite flag is unset, main raises ValueError at the output-directory *)
(* guard (line 60) and performs no later step: never leaves the guard      *)
(* except by raising, and invokes no collaborator that follows it.         *)
(***************************************************************************)
C1_ExistingDirRaises ==
    ExistsNoOverwrite =>
        /\ pc \in AtOrBeforeGuard \cup {"raised"}
        /\ (pc = "raised" <=> error = Raise("ValueError", 60))
        /\ (pc # "raised" => error = NoError)
        /\ NoLaterStep
        /\ ~Occurs("shutil.rmtree") /\ ~Occurs("os.mkdir")

C1_Witness ==
    ExistsNoOverwrite /\ pc = "raised" /\ error = Raise("ValueError", 60)

(***************************************************************************)
(* C2: when an output directory is supplied, exists, and the overwrite     *)
(* flag is set, the tree is deleted and then recreated: right after the    *)
(* guard the path exists, is empty, and rmtree ran once before mkdir ran   *)
(* once; the run does not end at the guard.                                *)
(***************************************************************************)
C2_OverwriteRecreates ==
    ExistsOverwrite =>
        /\ (pc = "device" =>
               /\ dirExists
               /\ dirContents = {}
               /\ Count("shutil.rmtree") = 1
               /\ Count("os.mkdir") = 1
               /\ Pos("shutil.rmtree") < Pos("os.mkdir"))
        /\ (pc = "mkdir" => ~dirExists /\ Occurs("shutil.rmtree"))
        /\ (pc = "raised" => error = Raise("NotImplementedError", 36))
        /\ (~(pc \in AtOrBeforeGuard \cup {"rmtree", "mkdir"}) =>
               Occurs("os.mkdir") /\ dirExists)

C2_Witness ==
    ExistsOverwrite /\ pc = "device" /\ fs0.contents # {} /\ dirContents = {}

(***************************************************************************)
(* C3: with do_train set and no output directory, main raises ValueError   *)
(* (line 64) before any model is loaded or training starts, whatever the   *)
(* output file argument is.                                                *)
(***************************************************************************)
C3_TrainNeedsOutputDir ==
    TrainNoDir =>
        /\ pc \in AtOrBeforeGuard \cup {"raised"}
        /\ (pc = "raised" <=> error = Raise("ValueError", 64))
        /\ loaded = {}
        /\ student = None /\ teacher = None
        /\ NoLaterStep

C3_Witness ==
    TrainNoDir /\ args.output_file # None /\ pc = "raised"
        /\ error = Raise("ValueError", 64)

(***************************************************************************)
(* C4: in training and evaluation-only runs alike, once a model whose      *)
(* base_model_prefix is not in SUPPORTED_MODELS has been loaded, get_model *)
(* has raised NotImplementedError, the run is over, and neither train nor  *)
(* evaluator.evaluate has been or will be invoked.                         *)
(***************************************************************************)
C4_UnsupportedModelRaises ==
    UnsupportedLoaded =>
        /\ pc = "raised"
        /\ error = Raise("NotImplementedError", 36)
        /\ ~Occurs("train")
        /\ ~Occurs("evaluator.evaluate")
        /\ results = None

C4_Witness ==
    /\ args.do_train
    /\ "teacher" \in loaded
    /\ prefix["student"] \in SUPPORTED_MODELS
    /\ prefix["teacher"] \notin SUPPORTED_MODELS
    /\ pc = "raised"

(***************************************************************************)
(* C5 as stated: whenever main's own code has raised, the configuration is *)
(* one of (i) unsupported base model type, (ii) existing output directory  *)
(* without overwrite, (iii) no output directory while neither training nor *)
(* an output file is requested.                                            *)
(***************************************************************************)
C5_ThreeChecksOnly ==
    error # NoError =>
        \/ UnsupportedLoaded
        \/ ExistsNoOverwrite
        \/ NoDirNoTrainNoFile

(***************************************************************************)
(* C5 amended: there are four fail-fast checks.  A finished run has raised *)
(* exactly when one of (i), (ii), (iii) or (iv) training requested without *)
(* an output directory holds; the path checks raise ValueError, the model  *)
(* check NotImplementedError.                                              *)
(***************************************************************************)
C5_FourChecks ==
    /\ (error # NoError <=> pc = "raised")
    /\ (error # NoError =>
           /\ error.line \in {36, 60, 64, 67}
           /\ (error.line = 36 <=> UnsupportedLoaded)
           /\ (error.line = 60 <=> ExistsNoOverwrite)
           /\ (error.line = 64 <=> TrainNoDir)
           /\ (error.line = 67 <=> NoDirNoTrainNoFile)
           /\ (error.type = "ValueError" <=> error.line # 36)
           /\ (error.type = "NotImplementedError" <=> error.line = 36))
    /\ (pc = "done" =>
           /\ ~ExistsNoOverwrite
           /\ ~TrainNoDir
           /\ ~NoDirNoTrainNoFile
           /\ AllSupported)

C5_Witness ==
    pc = "raised" /\ error = Raise("ValueError", 64) /\ ~UnsupportedLoaded

\* The step of the documented order each collaborator call belongs to:
\* 1 configuration resolution, 2 output-directory lifecycle, 3 device
\* selection, 4 seeding, 5 tokenizer, 6 student, 7 teacher, 8 dataset
\* loading, 9 batch-sampler construction, 10 training, 11 evaluation.
\* The tracker initialisation is not a step of that order.
StepRank(op) ==
    CASE op = "parse_args" -> 1
      [] op \in {"shutil.rmtree", "os.mkdir"} -> 2
      [] op = "torch.device" -> 3
      [] op = "set_seed" -> 4
      [] op = "AutoTokenizer.from_pretrained" -> 5
      [] op = "get_model.student" -> 6
      [] op = "get_model.teacher" -> 7
      [] op = "coref_dataset.create" -> 8
      [] op \in {"DynamicBatchSampler.eval", "DynamicBatchSampler.student_train",
                 "DynamicBatchSampler.teacher_train"} -> 9
      [] op = "train" -> 10
      [] op = "evaluator.evaluate" -> 11
      [] OTHER -> 0

Ordered ==
    \A i, j \in 1..Len(trace) :
        (i < j /\ StepRank(trace[i]) > 0 /\ StepRank(trace[j]) > 0)
            => StepRank(trace[i]) <= StepRank(trace[j])

EachAtMostOnce == \A i, j \in 1..Len(trace) : trace[i] = trace[j] => i = j

\* steps every run performs once it is past the model-type checks
MandatorySteps ==
    {"parse_args", "torch.device", "set_seed", "AutoTokenizer.from_pretrained",
     "get_model.student", "get_model.teacher", "coref_dataset.create",
     "DynamicBatchSampler.eval", "evaluator.evaluate"}

TrainingSteps ==
    {"DynamicBatchSampler.student_train", "DynamicBatchSampler.teacher_train", "train"}

PassedAllGuards == "teacher" \in loaded /\ error = NoError

(***************************************************************************)
(* C6: the steps of a run occur in the documented order, each collaborator *)
(* call at most once; training is invoked only when do_train is set; a run *)
(* that has passed all guards never raises, and when it ends it has        *)
(* performed every step, has invoked evaluator.evaluate exactly once, and  *)
(* has trained iff do_train, with train completed before the evaluation.   *)
(***************************************************************************)
C6_StepOrder ==
    /\ Ordered
    /\ EachAtMostOnce
    /\ (\E op \in TrainingSteps : Occurs(op)) => args.do_train
    /\ (Occurs("evaluator.evaluate") /\ args.do_train =>
           Occurs("train") /\ Pos("train") < Pos("evaluator.evaluate"))
    /\ (PassedAllGuards => pc # "raised")
    /\ (pc = "done" =>
           /\ PassedAllGuards
           /\ \A op \in MandatorySteps : Count(op) = 1
           /\ \A op \in TrainingSteps : Count(op) = (IF args.do_train THEN 1 ELSE 0)
           /\ trace[Len(trace)] = "evaluator.evaluate"
           /\ results # None)
    /\ (pc # "done" => results = None /\ ~Occurs("evaluator.evaluate"))

C6_Witness ==
    /\ pc = "done"
    /\ args.do_train
    /\ Occurs("shutil.rmtree")
    /\ Pos("train") < Pos("evaluator.evaluate")

(***************************************************************************)
(* C7: wandb.init is invoked exactly once when an experiment name is       *)
(* supplied and never otherwise; it is the call right after parse_args, so *)
(* it has happened in every run that has failed a later guard.             *)
(***************************************************************************)
C7_WandbInitOnce ==
    /\ (args.experiment_name = None => ~Occurs("wandb.init"))
    /\ (args.experiment_name # None /\ ~(pc \in {"parse_args", "wandb"}) =>
           /\ Count("wandb.init") = 1
           /\ trace[1] = "parse_args"
           /\ trace[2] = "wandb.init")
    /\ (pc \in {"parse_args", "wandb"} => ~Occurs("wandb.init"))
    /\ (pc = "raised" /\ args.experiment_name # None => Occurs("wandb.init"))

C7_Witness ==
    /\ pc = "raised"
    /\ args.experiment_name # None
    /\ error = Raise("ValueError", 60)
    /\ Count("wandb.init") = 1

EvalOnlyNoDir == args.output_dir = None /\ ~args.do_train

(***************************************************************************)
(* C8 as stated: without an output directory and without training, a       *)
(* finished run has raised ValueError iff no output file was supplied; and *)
(* with an output file it has created or deleted no directory and has gone *)
(* on to model loading and to evaluation.                                  *)
(***************************************************************************)
C8_FileRunEvaluates ==
    (EvalOnlyNoDir /\ Terminated) =>
        /\ (error.type = "ValueError" <=> args.output_file = None)
        /\ (args.output_file # None =>
               /\ ~Occurs("shutil.rmtree") /\ ~Occurs("os.mkdir")
               /\ FsUnchanged
               /\ Occurs("get_model.student")
               /\ Count("evaluator.evaluate") = 1)

(***************************************************************************)
(* C8 amended: as stated, except that the run goes on to evaluation only   *)
(* when both loaded models are of a supported type; otherwise it ends in   *)
(* get_model's NotImplementedError after loading.                          *)
(***************************************************************************)
C8_FileRunPassesGuard ==
    EvalOnlyNoDir =>
        /\ (Terminated => (error.type = "ValueError" <=> args.output_file = None))
        /\ (args.output_file = None =>
               /\ pc \in AtOrBeforeGuard \cup {"raised"}
               /\ (pc = "raised" => error = Raise("ValueError", 67)))
        /\ (args.output_file # None =>
               /\ ~Occurs("shutil.rmtree") /\ ~Occurs("os.mkdir")
               /\ FsUnchanged
               /\ ~(pc \in {"rmtree", "mkdir"})
               /\ (Terminated =>
                      /\ Occurs("get_model.student")
                      /\ (AllSupported =>
                             pc = "done" /\ Count("evaluator.evaluate") = 1)
                      /\ (~AllSupported =>
                             /\ error = Raise("NotImplementedError", 36)
                             /\ ~Occurs("evaluator.evaluate"))))

C8_Witness ==
    /\ EvalOnlyNoDir
    /\ args.output_file # None
    /\ pc = "done"
    /\ Count("evaluator.evaluate") = 1

(***************************************************************************)
(* C9: whenever train has been invoked, do_train is set, an output         *)
(* directory was supplied, and this run's os.mkdir created it: the path    *)
(* did not exist when the run started or the run deleted it first, it was  *)
(* empty when created, and it has existed ever since.                      *)
(***************************************************************************)
C9_TrainHasFreshDir ==
    Occurs("train") =>
        /\ args.do_train
        /\ args.output_dir # None
        /\ Count("os.mkdir") = 1
        /\ fsAtMkdir.done
        /\ fsAtMkdir.contents = {}
        /\ (fs0.exists =>
               Count("shutil.rmtree") = 1 /\ Pos("shutil.rmtree") < Pos("os.mkdir"))
        /\ (~fs0.exists => ~Occurs("shutil.rmtree"))
        /\ Pos("os.mkdir") < Pos("train")
        /\ dirExists

C9_Witness ==
    /\ Occurs("train")
    /\ fs0.exists
    /\ fs0.contents # {}
    /\ dirContents # {}
    /\ dirContents # fs0.contents

(***************************************************************************)
(* C10: a run that ends in one of the three output-path ValueErrors leaves *)
(* the file system as it found it: no directory deleted or created, the    *)
(* contents of an existing directory kept.  shutil.rmtree is invoked only  *)
(* when the directory existed and the overwrite flag is set.               *)
(***************************************************************************)
C10_ErrorsLeaveFsUnchanged ==
    /\ (pc = "raised" /\ error.type = "ValueError" =>
           /\ FsUnchanged
           /\ ~Occurs("shutil.rmtree")
           /\ ~Occurs("os.mkdir")
           /\ ~fsAtMkdir.done)
    /\ (Occurs("shutil.rmtree") \/ pc = "rmtree" => ExistsOverwrite)
    /\ (~dirExists /\ fs0.exists => Occurs("shutil.rmtree"))

C10_Witness ==
    /\ pc = "raised"
    /\ error = Raise("ValueError", 60)
    /\ fs0.contents # {}
    /\ dirContents = fs0.contents

TypeOK ==
    /\ \E a \in ArgsSpace : args \in {a, [a EXCEPT !.device = "cpu"]}
    /\ dirContents \subseteq Files
    /\ loaded \subseteq {"student", "teacher"}

====
